---- MODULE Spec2Model ----
(***************************************************************************)
(* Model of main.py: the Bookify chat backend.                             *)
(*                                                                         *)
(* Python values are tagged records; Python strings are TLA+ strings.      *)
(* A call that may raise yields [ok |-> TRUE, val |-> v] or                *)
(* [ok |-> FALSE, exc |-> "<exception class>"].                            *)
(***************************************************************************)
EXTENDS Integers, Sequences, FiniteSets, TLC

(***************************************************************************)
(* Bounds of the model.                                                    *)
(***************************************************************************)
NumRequests == 2

(***************************************************************************)
(* Python / JSON values.                                                   *)
(***************************************************************************)
None == [t |-> "null"]
JBool(b) == [t |-> "bool", v |-> b]
JNum(n) == [t |-> "num", v |-> n]
JStr(s) == [t |-> "str", v |-> s]
JArr(items) == [t |-> "arr", v |-> items]
JObj(pairs) == [t |-> "obj", v |-> pairs]

Ok(v) == [ok |-> TRUE, val |-> v]
Raise(e) == [ok |-> FALSE, exc |-> e]

Char(s, i) == IF i >= 1 /\ i <= Len(s) THEN SubSeq(s, i, i) ELSE ""

Digits == "0123456789"

IsDigit(c) == \E d \in 1..10 : SubSeq(Digits, d, d) = c

DigitValue(c) == (CHOOSE d \in 1..10 : SubSeq(Digits, d, d) = c) - 1

RECURSIVE nat_str(_)
nat_str(n) ==
    IF n < 10 THEN SubSeq(Digits, n + 1, n + 1)
    ELSE nat_str(n \div 10) \o SubSeq(Digits, (n % 10) + 1, (n % 10) + 1)

int_str(n) == IF n < 0 THEN "-" \o nat_str(0 - n) ELSE nat_str(n)

(***************************************************************************)
(* json.dumps with its default separators (", " and ": ").                 *)
(***************************************************************************)
RECURSIVE json_dumps(_)
RECURSIVE dumps_items(_, _)
RECURSIVE dumps_pairs(_, _)
dumps_items(items, i) ==
    IF i > Len(items) THEN ""
    ELSE (IF i > 1 THEN ", " ELSE "") \o json_dumps(items[i])
         \o dumps_items(items, i + 1)

dumps_pairs(pairs, i) ==
    IF i > Len(pairs) THEN ""
    ELSE (IF i > 1 THEN ", " ELSE "") \o "\"" \o pairs[i][1] \o "\": "
         \o json_dumps(pairs[i][2]) \o dumps_pairs(pairs, i + 1)

json_dumps(x) ==
    CASE x.t = "null" -> "null"
      [] x.t = "bool" -> (IF x.v THEN "true" ELSE "false")
      [] x.t = "num" -> int_str(x.v)
      [] x.t = "str" -> "\"" \o x.v \o "\""
      [] x.t = "arr" -> "[" \o dumps_items(x.v, 1) \o "]"
      [] x.t = "obj" -> "{" \o dumps_pairs(x.v, 1) \o "}"

(***************************************************************************)
(* json.load / response.json(): a recursive-descent parser. A parse step   *)
(* yields [ok |-> TRUE, val |-> v, pos |-> next index] or [ok |-> FALSE].   *)
(***************************************************************************)
\* s[i:i+len(lit)] == lit
MatchAt(s, i, lit) == i + Len(lit) - 1 <= Len(s) /\ SubSeq(s, i, i + Len(lit) - 1) = lit

IsSpace(c) == c \in {" ", "\n", "\t", "\r"}

RECURSIVE skip_ws(_, _)
skip_ws(s, i) == IF IsSpace(Char(s, i)) THEN skip_ws(s, i + 1) ELSE i

Parsed(v, p) == [ok |-> TRUE, val |-> v, pos |-> p]
ParseFail == [ok |-> FALSE]

RECURSIVE scan_string(_, _)
\* index of the closing quote at or after i, 0 when the string never ends
scan_string(s, i) ==
    IF i > Len(s) THEN 0
    ELSE IF Char(s, i) = "\"" THEN i
    ELSE scan_string(s, i + 1)

parse_string(s, i) ==
    LET j == scan_string(s, i + 1)
    IN IF j = 0 THEN ParseFail ELSE Parsed(JStr(SubSeq(s, i + 1, j - 1)), j + 1)

RECURSIVE scan_digits(_, _, _)
scan_digits(s, i, acc) ==
    IF IsDigit(Char(s, i)) THEN scan_digits(s, i + 1, acc * 10 + DigitValue(Char(s, i)))
    ELSE [val |-> acc, pos |-> i]

parse_number(s, i) ==
    LET neg == Char(s, i) = "-"
        start == IF neg THEN i + 1 ELSE i
        r == scan_digits(s, start, 0)
    IN IF ~IsDigit(Char(s, start)) THEN ParseFail
       ELSE IF Char(s, start) = "0" THEN Parsed(JNum(0), start + 1)
       ELSE Parsed(JNum(IF neg THEN 0 - r.val ELSE r.val), r.pos)

\* dict[key] = value during parsing: a repeated key keeps its place and
\* takes the last value
RECURSIVE dict_set(_, _, _, _)
dict_set(pairs, k, v, i) ==
    IF i > Len(pairs) THEN Append(pairs, <<k, v>>)
    ELSE IF pairs[i][1] = k THEN [pairs EXCEPT ![i] = <<k, v>>]
    ELSE dict_set(pairs, k, v, i + 1)

RECURSIVE parse_value(_, _)
RECURSIVE parse_items(_, _, _)
RECURSIVE parse_pairs(_, _, _)
\* i is at the first character of an element
parse_items(s, i, acc) ==
    LET r == parse_value(s, i)
    IN IF ~r.ok THEN ParseFail
       ELSE LET j == skip_ws(s, r.pos)
                items == Append(acc, r.val)
            IN CASE Char(s, j) = "]" -> Parsed(JArr(items), j + 1)
                 [] Char(s, j) = "," -> parse_items(s, skip_ws(s, j + 1), items)
                 [] OTHER -> ParseFail

\* i is at the first character of a key
parse_pairs(s, i, acc) ==
    IF Char(s, i) # "\"" THEN ParseFail
    ELSE LET k == parse_string(s, i)
         IN IF ~k.ok THEN ParseFail
            ELSE LET c == skip_ws(s, k.pos)
                 IN IF Char(s, c) # ":" THEN ParseFail
                    ELSE LET r == parse_value(s, skip_ws(s, c + 1))
                         IN IF ~r.ok THEN ParseFail
                            ELSE LET j == skip_ws(s, r.pos)
                                     pairs == dict_set(acc, k.val.v, r.val, 1)
                                 IN CASE Char(s, j) = "}" -> Parsed(JObj(pairs), j + 1)
                                      [] Char(s, j) = "," -> parse_pairs(s, skip_ws(s, j + 1), pairs)
                                      [] OTHER -> ParseFail

parse_value(s, i) ==
    LET c == Char(s, i)
    IN CASE c = "\"" -> parse_string(s, i)
         [] c = "[" ->
              (LET j == skip_ws(s, i + 1)
               IN IF Char(s, j) = "]" THEN Parsed(JArr(<<>>), j + 1)
                  ELSE parse_items(s, j, <<>>))
         [] c = "{" ->
              (LET j == skip_ws(s, i + 1)
               IN IF Char(s, j) = "}" THEN Parsed(JObj(<<>>), j + 1)
                  ELSE parse_pairs(s, j, <<>>))
         [] c = "-" \/ IsDigit(c) -> parse_number(s, i)
         [] c = "n" -> IF MatchAt(s, i, "null") THEN Parsed(None, i + 4) ELSE ParseFail
         [] c = "t" -> IF MatchAt(s, i, "true") THEN Parsed(JBool(TRUE), i + 4) ELSE ParseFail
         [] c = "f" -> IF MatchAt(s, i, "false") THEN Parsed(JBool(FALSE), i + 5) ELSE ParseFail
         [] OTHER -> ParseFail

\* json.loads: one value, surrounded by optional whitespace, and nothing else
json_loads(s) ==
    LET r == parse_value(s, skip_ws(s, 1))
    IN IF ~r.ok THEN Raise("JSONDecodeError")
       ELSE IF skip_ws(s, r.pos) <= Len(s) THEN Raise("JSONDecodeError")
       ELSE Ok(r.val)

(***************************************************************************)
(* Python built-ins used by main.py.                                       *)
(***************************************************************************)
\* len(x)
py_len(x) ==
    IF x.t \in {"arr", "obj", "str"} THEN Ok(Len(x.v)) ELSE Raise("TypeError")

RECURSIVE dict_find(_, _, _)
\* index of key k in the dict's items, 0 when absent
dict_find(pairs, k, i) ==
    IF i > Len(pairs) THEN 0
    ELSE IF pairs[i][1] = k THEN i
    ELSE dict_find(pairs, k, i + 1)

\* x.get(k, default)
dict_get(x, k, default) ==
    IF x.t # "obj" THEN Raise("AttributeError")
    ELSE LET i == dict_find(x.v, k, 1)
         IN IF i = 0 THEN Ok(default) ELSE Ok(x.v[i][2])

\* variant: a missing key yields None, as x.get(k) would
getitem_key_default_none(x, k) ==
    CASE x.t = "obj" ->
           (LET i == dict_find(x.v, k, 1)
            IN IF i = 0 THEN Ok(None) ELSE Ok(x.v[i][2]))
      [] OTHER -> Raise("TypeError")

\* x[k] for a str key k
getitem_key(x, k) ==
    CASE x.t = "obj" ->
           (LET i == dict_find(x.v, k, 1)
            IN IF i = 0 THEN Raise("KeyError") ELSE Ok(x.v[i][2]))
      [] OTHER -> Raise("TypeError")

\* x[n] for an int index n >= 0
getitem_index(x, n) ==
    CASE x.t = "arr" -> IF n < Len(x.v) THEN Ok(x.v[n + 1]) ELSE Raise("IndexError")
      [] x.t = "str" -> IF n < Len(x.v) THEN Ok(JStr(Char(x.v, n + 1))) ELSE Raise("IndexError")
      [] x.t = "obj" -> Raise("KeyError")
      [] OTHER -> Raise("TypeError")

(***************************************************************************)
(* Inputs: the states rooms.json can be found in at startup, the user      *)
(* texts, and what the completion endpoint or the transport can answer.     *)
(***************************************************************************)
RoomsFiles ==
    { [exists |-> FALSE],
      [exists |-> TRUE, text |-> "{\"Rooms\":[{\"Id\":12},{\"Id\":14}],\n \"RoomTypes\":[\"Suite\"]}\n"],
      [exists |-> TRUE, text |-> "{\"Hotel\": \"Bookify\"}"],
      [exists |-> TRUE, text |-> "{\"Rooms\": [{\"Id\": 12},"],
      [exists |-> TRUE, text |-> "[{\"Id\": 12}]"],
      [exists |-> TRUE, text |-> "42"],
      [exists |-> TRUE, text |-> "{\"Rooms\": 5}"],
      [exists |-> TRUE, text |-> "{\"Rooms\": [], \"RoomTypes\": null}"] }

\* os.getenv("GROQ_API_KEY"): None when unset
ApiKeys == { None, JStr("gsk_live") }

UserTexts == { "Is room 12 free?", "" }

Timeout == [kind |-> "ReadTimeout"]
ConnectError == [kind |-> "ConnectError"]
Response(s, b) == [kind |-> "response", status |-> s, body |-> b]

GoodBody == "{\"choices\":[{\"message\":{\"content\":\"Room 12 is available.\"}}]}"

SuccessResponses ==
    { Response(200, GoodBody),
      Response(201, GoodBody),
      Response(200, "{\"id\": \"c-1\", \"choices\": [{\"index\": 0, \"message\": {\"role\": \"assistant\", \"content\": \"Yes.\"}}, {\"index\": 1, \"message\": {\"content\": \"No.\"}}], \"usage\": {\"total_tokens\": 7}}"),
      Response(200, "{\"choices\":[{\"message\":{\"role\":\"assistant\",\"content\":null}}]}"),
      Response(200, "{\"choices\":[{\"message\":{\"role\":\"assistant\"}}]}"),
      Response(200, "{\"choices\":[]}"),
      Response(200, "{\"choices\":\"none\"}"),
      Response(200, "<html>OK</html>") }

FailureResponses ==
    { Response(500, GoodBody),
      Response(401, "{\"error\":{\"message\":\"Invalid API Key\"}}"),
      Response(302, ""),
      Response(101, "") }

\* the endpoint answers 2xx only to a request that carries a valid key
Authorized(request) == request.headers.Authorization = "Bearer gsk_live"

Outcomes(request) ==
    {Timeout, ConnectError} \cup FailureResponses
    \cup (IF Authorized(request) THEN SuccessResponses ELSE {})

(***************************************************************************)
(* State.                                                                  *)
(***************************************************************************)
VARIABLES
    rooms_json,     \* the file rooms.json as found on disk
    NLU_API_KEY,    \* module global: os.getenv("GROQ_API_KEY")
    chatbot_db,     \* module global: the in-memory cache
    phase,          \* "starting", "serving", or "failed" (startup raised)
    stdout,         \* lines printed by startup
    chat            \* chat[i]: the i-th /chat request and where its handler is

vars == <<rooms_json, NLU_API_KEY, chatbot_db, phase, stdout, chat>>

Requests == 1..NumRequests

NLU_API_URL == "https://api.groq.com/openai/v1/chat/completions"

(***************************************************************************)
(* load_data_into_cache: yields the new chatbot_db, the lines printed and   *)
(* the exception that escapes ("" when it returns normally).               *)
(***************************************************************************)
LoadResult(db, out, exc) == [db |-> db, out |-> out, exc |-> exc]

\* variant: no except clause for json.JSONDecodeError
load_data_into_cache_uncaught_decode(file, db) ==
    LET attempt == <<"Attempting to load data from rooms.json into cache...">>
    IN IF ~file.exists
       THEN LoadResult(db, Append(attempt, "WARNING: rooms.json not found. The chatbot will have no room data."), "")
       ELSE LET parsed == json_loads(file.text)
            IN IF ~parsed.ok THEN LoadResult(db, attempt, parsed.exc)
               ELSE LoadResult(parsed.val, Append(attempt, "Successfully loaded"), "")

load_data_into_cache(file, db) ==
    LET attempt == <<"Attempting to load data from rooms.json into cache...">>
    IN IF ~file.exists
       THEN LoadResult(db, Append(attempt, "WARNING: rooms.json not found. The chatbot will have no room data."), "")
       ELSE LET parsed == json_loads(file.text)
            IN IF ~parsed.ok
               THEN LoadResult(db, Append(attempt, "WARNING: Could not decode rooms.json. Check for syntax errors."), "")
               ELSE LET new_db == parsed.val
                        rooms == dict_get(new_db, "Rooms", JArr(<<>>))
                        room_count == IF rooms.ok THEN py_len(rooms.val) ELSE rooms
                        types == dict_get(new_db, "RoomTypes", JArr(<<>>))
                        room_type_count == IF types.ok THEN py_len(types.val) ELSE types
                    IN IF ~room_count.ok THEN LoadResult(new_db, attempt, room_count.exc)
                       ELSE IF ~room_type_count.ok THEN LoadResult(new_db, attempt, room_type_count.exc)
                       ELSE LoadResult(new_db,
                                Append(attempt, "Successfully loaded " \o int_str(room_count.val)
                                    \o " rooms and " \o int_str(room_type_count.val)
                                    \o " room types into cache."), "")

(***************************************************************************)
(* get_ai_response up to its await: headers, context and payload.          *)
(***************************************************************************)
\* f"{x}" for a str or None
py_format(x) == IF x.t = "null" THEN "None" ELSE x.v

request_headers(key) ==
    [Authorization |-> "Bearer " \o py_format(key), ContentType |-> "application/json"]

SystemPrompt == "You are a helpful hotel booking assistant for a hotel named 'Bookify'.\n                Your only job is to answer questions based on the user's query and the provided JSON data about rooms and room types.\n                Keep your answers concise and friendly.\n                Current hotel data: "

\* variant: the context is serialized from the empty default, not from the cache
build_payload_default_context(user_text, db) ==
    LET full_context == json_dumps(JObj(<<>>))
    IN [model |-> "meta-llama/llama-4-scout-17b-16e-instruct",
        messages |-> << [role |-> "system", content |-> SystemPrompt \o full_context],
                        [role |-> "user", content |-> user_text] >>]

build_payload(user_text, db) ==
    LET full_context == json_dumps(db)
    IN [model |-> "meta-llama/llama-4-scout-17b-16e-instruct",
        messages |-> << [role |-> "system", content |-> SystemPrompt \o full_context],
                        [role |-> "user", content |-> user_text] >>]

post_request(user_text, db, key) ==
    [url |-> NLU_API_URL, json |-> build_payload(user_text, db),
     headers |-> request_headers(key), timeout |-> 30]

(***************************************************************************)
(* get_ai_response after its await.                                        *)
(***************************************************************************)
\* variant: only client and server errors raise
raise_for_status_client_server_only(response) ==
    IF response.status >= 400 /\ response.status <= 599 THEN Raise("HTTPStatusError")
    ELSE Ok(response)

\* response.raise_for_status()
raise_for_status(response) ==
    IF response.status >= 200 /\ response.status <= 299 THEN Ok(response)
    ELSE Raise("HTTPStatusError")

\* data['choices'][0]['message']['content']
extract_content(data) ==
    LET choices == getitem_key(data, "choices")
        first == IF choices.ok THEN getitem_index(choices.val, 0) ELSE choices
        message == IF first.ok THEN getitem_key(first.val, "message") ELSE first
    IN IF message.ok THEN getitem_key(message.val, "content") ELSE message

\* the body of the try block, from the completion of client.post on
try_body(outcome) ==
    IF outcome.kind # "response" THEN Raise(outcome.kind)
    ELSE LET checked == raise_for_status(outcome)
         IN IF ~checked.ok THEN checked
            ELSE LET data == json_loads(outcome.body)
                 IN IF ~data.ok THEN data ELSE extract_content(data.val)

SorryReply == "Sorry, I received an error from the AI service. Please check the terminal for details."
UnexpectedReply == "An unexpected error occurred. Please check the server logs."

\* variant: a single except clause for every exception
except_clause_unexpected_only(exc, outcome) ==
    [ret |-> JStr("An unexpected error occurred. Please check the server logs."),
     printed |-> "An unexpected error occurred: " \o exc]

\* the except clauses: the value returned and the line printed
except_clause(exc, outcome) ==
    IF exc = "HTTPStatusError"
    THEN [ret |-> JStr(SorryReply),
          printed |-> "HTTP ERROR: " \o int_str(outcome.status) \o " - " \o outcome.body]
    ELSE [ret |-> JStr(UnexpectedReply),
          printed |-> "An unexpected error occurred: " \o exc]

get_ai_response(outcome) ==
    LET r == try_body(outcome)
    IN IF r.ok THEN [ret |-> r.val, printed |-> ""] ELSE except_clause(r.exc, outcome)

\* BotReply(reply=response_text): the field is declared str, and pydantic
\* rejects None, lists and dicts for it
BotReply(response_text) ==
    IF response_text.t = "str" THEN Ok([reply |-> response_text.v])
    ELSE Raise("ValidationError")

\* what the client of /chat receives: an exception escaping the handler is a 500
handle_chat_message(response_text) ==
    LET model == BotReply(response_text)
    IN IF model.ok THEN [status |-> 200, body |-> model.val]
       ELSE [status |-> 500, body |-> [detail |-> "Internal Server Error"]]

\* variant: a failed call is attempted once more
chat_resume_retry(c, outcome) ==
    IF ~try_body(outcome).ok /\ c.posts < 2
    THEN [c EXCEPT !.posts = c.posts + 1]
    ELSE LET r == get_ai_response(outcome)
         IN [pc |-> "done", text |-> c.text, posts |-> c.posts, outcome |-> outcome,
             printed |-> r.printed, result |-> handle_chat_message(r.ret)]

\* the handler from the completion of its single client.post to its end
chat_resume(c, outcome) ==
    LET r == get_ai_response(outcome)
    IN [pc |-> "done", text |-> c.text, posts |-> c.posts, outcome |-> outcome,
        printed |-> r.printed, result |-> handle_chat_message(r.ret)]

(***************************************************************************)
(* The state machine.                                                      *)
(***************************************************************************)
Init ==
    /\ rooms_json \in RoomsFiles
    /\ NLU_API_KEY \in ApiKeys
    /\ chatbot_db = JObj(<<>>)
    /\ phase = "starting"
    /\ stdout = <<>>
    /\ chat = [i \in Requests |-> [pc |-> "idle"]]

\* lifespan: load_data_into_cache() runs before the application serves
Startup ==
    /\ phase = "starting"
    /\ LET r == load_data_into_cache(rooms_json, chatbot_db)
       IN /\ chatbot_db' = r.db
          /\ stdout' = stdout \o r.out
          /\ phase' = IF r.exc = "" THEN "serving" ELSE "failed"
    /\ UNCHANGED <<rooms_json, NLU_API_KEY, chat>>

\* variant: the handler keeps the last user text in the cache
ChatRequest_remember(i, user_text) ==
    /\ phase = "serving"
    /\ chat[i].pc = "idle"
    /\ chat' = [chat EXCEPT ![i] =
                  [pc |-> "awaiting", text |-> user_text, posts |-> 1,
                   request |-> post_request(user_text, chatbot_db, NLU_API_KEY)]]
    /\ chatbot_db' = JObj(dict_set(chatbot_db.v, "last_text", JStr(user_text), 1))
    /\ UNCHANGED <<rooms_json, NLU_API_KEY, phase, stdout>>

\* POST /chat arrives: the handler runs up to the await of client.post
ChatRequest(i, user_text) ==
    /\ phase = "serving"
    /\ chat[i].pc = "idle"
    /\ chat' = [chat EXCEPT ![i] =
                  [pc |-> "awaiting", text |-> user_text, posts |-> 1,
                   request |-> post_request(user_text, chatbot_db, NLU_API_KEY)]]
    /\ UNCHANGED <<rooms_json, NLU_API_KEY, chatbot_db, phase, stdout>>

\* client.post completes or fails: the handler runs to its end
ChatComplete(i) ==
    /\ chat[i].pc = "awaiting"
    /\ \E outcome \in Outcomes(chat[i].request) :
          chat' = [chat EXCEPT ![i] = chat_resume(chat[i], outcome)]
    /\ UNCHANGED <<rooms_json, NLU_API_KEY, chatbot_db, phase, stdout>>

Next ==
    \/ Startup
    \/ \E i \in Requests, user_text \in UserTexts : ChatRequest(i, user_text)
    \/ \E i \in Requests : ChatComplete(i)

Spec == Init /\ [][Next]_vars

(***************************************************************************)
(* Vocabulary of the properties.                                           *)
(***************************************************************************)
Done(i) == chat[i].pc = "done"
Awaiting(i) == chat[i].pc = "awaiting"

IsSuccess(outcome) ==
    outcome.kind = "response" /\ outcome.status >= 200 /\ outcome.status <= 299

IsNonSuccess(outcome) ==
    outcome.kind = "response" /\ ~(outcome.status >= 200 /\ outcome.status <= 299)

\* the member named k of a JSON object, as a set (empty when x has none)
Member(x, k) ==
    IF x.t # "obj" THEN {} ELSE { x.v[p][2] : p \in { q \in 1..Len(x.v) : x.v[q][1] = k } }

\* the values at choices[0].message.content of a parsed body (empty or one)
ContentsOf(data) ==
    { c \in UNION { Member(m, "content") :
                    m \in UNION { Member(f, "message") :
                                  f \in UNION { IF ch.t = "arr" /\ Len(ch.v) >= 1 THEN {ch.v[1]} ELSE {} :
                                                ch \in Member(data, "choices") } } } : TRUE }

\* sub occurs in s
Contains(s, sub) ==
    \E k \in 1..(Len(s) - Len(sub) + 1) : SubSeq(s, k, k + Len(sub) - 1) = sub

RoomsFileParses == rooms_json.exists /\ json_loads(rooms_json.text).ok

\* C1: every /chat request, whatever the outbound call's outcome, is answered
\* with status 200 and a BotReply whose reply is a string.
ChatAlwaysAnswersWithStringReply ==
    \A i \in Requests :
        Done(i) => /\ chat[i].result.status = 200
                   /\ DOMAIN chat[i].result.body = {"reply"}

\* C2: a response with a status outside 200..299, whatever its body, yields
\* exactly the "Sorry, I received an error ..." reply.
NonSuccessStatusGivesSorryReply ==
    \A i \in Requests :
        (Done(i) /\ IsNonSuccess(chat[i].outcome)) =>
            chat[i].result =
                [status |-> 200,
                 body |-> [reply |-> "Sorry, I received an error from the AI service. Please check the terminal for details."]]

NonSuccessStatusWitness ==
    \E i \in Requests :
        /\ Done(i)
        /\ chat[i].outcome = Response(302, "")
        /\ chat[i].result.body = [reply |-> "Sorry, I received an error from the AI service. Please check the terminal for details."]

\* C3: a timeout, a connection error, a 2xx body that is not JSON, and a 2xx
\* JSON body without choices[0].message.content each yield exactly the
\* "An unexpected error occurred ..." reply.
OtherFailureGivesUnexpectedReply ==
    \A i \in Requests :
        (/\ Done(i)
         /\ \/ chat[i].outcome.kind # "response"
            \/ /\ IsSuccess(chat[i].outcome)
               /\ LET data == json_loads(chat[i].outcome.body)
                  IN ~data.ok \/ ContentsOf(data.val) = {})
        => chat[i].result =
               [status |-> 200,
                body |-> [reply |-> "An unexpected error occurred. Please check the server logs."]]

OtherFailureWitness ==
    \E i \in Requests :
        /\ Done(i)
        /\ chat[i].outcome = Response(200, "{\"choices\":[{\"message\":{\"role\":\"assistant\"}}]}")
        /\ chat[i].result.body = [reply |-> "An unexpected error occurred. Please check the server logs."]

\* an authentication failure: no key is configured and the endpoint answers 401
MissingKeyAuthFailure(i) ==
    /\ NLU_API_KEY = None
    /\ Done(i)
    /\ chat[i].outcome.kind = "response"
    /\ chat[i].outcome.status = 401

\* C4 (as stated): with no API key configured, the authentication failure of
\* a chat request yields the "An unexpected error occurred ..." reply.
MissingKeyGivesUnexpectedReply ==
    \A i \in Requests :
        MissingKeyAuthFailure(i) =>
            chat[i].result.body = [reply |-> "An unexpected error occurred. Please check the server logs."]

\* C4 (amended): with no API key configured, a chat request is still served
\* after startup and its authentication failure (a 401 response) yields the
\* "Sorry, I received an error ..." reply.
MissingKeyGivesSorryReply ==
    \A i \in Requests :
        MissingKeyAuthFailure(i) =>
            chat[i].result =
                [status |-> 200,
                 body |-> [reply |-> "Sorry, I received an error from the AI service. Please check the terminal for details."]]

MissingKeyWitness ==
    \E i \in Requests :
        /\ MissingKeyAuthFailure(i)
        /\ chat[i].result.status = 200

\* C5: a 2xx response whose JSON body has choices[0].message.content = c is
\* answered with a reply exactly equal to c.
SuccessReplyEqualsContent ==
    \A i \in Requests :
        (Done(i) /\ IsSuccess(chat[i].outcome) /\ json_loads(chat[i].outcome.body).ok) =>
            \A c \in ContentsOf(json_loads(chat[i].outcome.body).val) :
                /\ chat[i].result.status = 200
                /\ c.t = "str"
                /\ chat[i].result.body = [reply |-> c.v]

\* C6: when rooms.json is missing or is not JSON, startup returns normally,
\* chatbot_db stays {} and chat requests serialize the empty document.
MissingOrMalformedFileLeavesEmptyDb ==
    (phase # "starting" /\ ~RoomsFileParses) =>
        /\ phase = "serving"
        /\ chatbot_db = [t |-> "obj", v |-> <<>>]
        /\ \A i \in Requests :
              Awaiting(i) => chat[i].request.json.messages[1].content = SystemPrompt \o "{}"

MalformedFileWitness ==
    /\ rooms_json.exists
    /\ ~RoomsFileParses
    /\ phase = "serving"
    /\ \E i \in Requests : Awaiting(i)

\* C7: for every rooms.json that parses as JSON, whatever its shape,
\* load_data_into_cache returns without raising and chatbot_db is the whole
\* parsed value.
ParseableFileLoadsWithoutRaising ==
    (phase # "starting" /\ RoomsFileParses) =>
        /\ phase # "failed"
        /\ chatbot_db = json_loads(rooms_json.text).val

\* C8: after startup with a valid JSON file chatbot_db is the parsed
\* structure, and every outbound payload has exactly two messages, system
\* then user, the system content containing the serialization of the current
\* chatbot_db and the user content being the input text.
PayloadCarriesDbAndUserText ==
    /\ (phase # "starting" /\ RoomsFileParses) =>
          /\ chatbot_db = json_loads(rooms_json.text).val
          /\ json_loads(json_dumps(chatbot_db)) = Ok(chatbot_db)
    /\ \A i \in Requests :
          Awaiting(i) =>
              LET messages == chat[i].request.json.messages
              IN /\ Len(messages) = 2
                 /\ messages[1].role = "system"
                 /\ messages[2].role = "user"
                 /\ Contains(messages[1].content, json_dumps(chatbot_db))
                 /\ messages[2].content = chat[i].text

PayloadWitness ==
    \E i \in Requests :
        /\ Awaiting(i)
        /\ chat[i].text = "Is room 12 free?"
        /\ Contains(chat[i].request.json.messages[1].content,
                    "{\"Rooms\": [{\"Id\": 12}, {\"Id\": 14}], \"RoomTypes\": [\"Suite\"]}")

\* C9: every chat request makes exactly one outbound POST: a request that
\* awaits or has answered has posted once, and it answers only from the
\* completion or failure of that one call, never posting again.
ExactlyOnePostPerRequest ==
    [][\A i \in Requests :
          /\ chat'[i].pc \in {"awaiting", "done"} => chat'[i].posts = 1
          /\ (chat'[i].pc = "done" /\ chat[i].pc # "done") =>
                (chat[i].pc = "awaiting" /\ chat'[i].outcome \in Outcomes(chat[i].request))
          /\ chat[i].pc = "done" => chat'[i] = chat[i]]_vars

OnePostAfterFailureWitness ==
    \E i \in Requests :
        /\ Done(i)
        /\ chat[i].outcome = Timeout
        /\ chat[i].posts = 1

\* C10: the startup load runs once and before any chat request is handled;
\* afterwards chatbot_db is never written, however the requests interleave,
\* and two requests with the same text and the same outcome get the same reply.
DbReadOnlyAfterStartup ==
    /\ [](/\ phase = "starting" => \A i \in Requests : chat[i].pc = "idle"
          /\ Cardinality({ k \in 1..Len(stdout) :
                 stdout[k] = "Attempting to load data from rooms.json into cache..." })
               = (IF phase = "starting" THEN 0 ELSE 1)
          /\ \A i, j \in Requests :
                (Done(i) /\ Done(j) /\ chat[i].text = chat[j].text
                    /\ chat[i].outcome = chat[j].outcome)
                => chat[i].result = chat[j].result)
    /\ [][phase # "starting" => chatbot_db' = chatbot_db]_vars

InterleavedRequestsWitness ==
    /\ Done(1)
    /\ Awaiting(2)
    /\ chatbot_db # [t |-> "obj", v |-> <<>>]

====
